---------------------------- MODULE Spec2Model ----------------------------
(***************************************************************************)
(* Model of src/main.py: the retry wrapper retry_yt_dlp_operation, the two *)
(* request handlers search_videos and download_audio, health_check, and    *)
(* the single-threaded event loop the handlers run on.                     *)
(*                                                                         *)
(* Three specifications share the definitions:                             *)
(*   SpecRetry / FairSpecRetry  one direct call of the retry wrapper with  *)
(*                  a scripted operation (any max_retries, initial_delay)  *)
(*   SpecSearch     one POST /api/search against any upstream replies      *)
(*   Spec           the server: concurrent requests on one event loop      *)
(***************************************************************************)
EXTENDS Integers, Sequences, FiniteSets, TLC

VARIABLES req, loop, now

vars == <<req, loop, now>>

(***************************************************************************)
(* Bounds of the model.                                                    *)
(***************************************************************************)
\* largest max_retries a direct call of the wrapper is given
MaxAttempts == 3
\* bits of the scaled-down floating-point significand (53 in CPython)
MantissaBits == 3
\* last clock reading of the modelled window, in half seconds
MaxTick == 2
\* the largest upstream reply of SpecSearch, in entries
MaxItems == 2

(***************************************************************************)
(* Program constants.                                                      *)
(***************************************************************************)
DefaultMaxRetries == 3
DefaultInitialDelay == 2

\* The request slots.  The claims checked under the server specification are
\* about one request or a pair of requests, so two slots show every case.
Reqs == {1, 2}
NoOne == 0

RECURSIVE Pow2(_)
Pow2(n) == IF n <= 0 THEN 1 ELSE 2 * Pow2(n - 1)

(***************************************************************************)
(* Floating point.  A delay is kept in units of 2^-MantissaBits, the grid  *)
(* random.random() draws from; a double in [2^e, 2^(e+1)) is a multiple of *)
(* 2^(e+1) units, and the sum is rounded to the nearest one, ties to even. *)
(***************************************************************************)
Unit == Pow2(MantissaBits)

RECURSIVE Ulp(_)
Ulp(s) == IF s < Unit THEN 1 ELSE 2 * Ulp(s \div 2)

FloatRound(s) ==
    LET q == Ulp(s)
        lo == (s \div q) * q
        rest == s - lo
    IN  IF 2 * rest < q THEN lo
        ELSE IF 2 * rest > q THEN lo + q
        ELSE IF (lo \div q) % 2 = 0 THEN lo ELSE lo + q

\* random.uniform(0, 1) == 0 + (1 - 0) * random(): a grid point of [0, 1)
Jitter == 0..(Unit - 1)

(***************************************************************************)
(* Outcomes of one invocation of an operation.                             *)
(***************************************************************************)
Failures == {"bot_dl", "other_dl", "other_exc"}
Outcomes == {"ok"} \cup Failures

\* isinstance(e, yt_dlp.utils.DownloadError)
IsDownloadError(o) == o \in {"bot_dl", "other_dl"}
\* "Sign in to confirm you're not a bot" in str(e)
HasBotText(o) == o = "bot_dl"

\* the exception object raised by invocation number i
ErrorOf(o, i) == [tag |-> "error", kind |-> o, at |-> i]
\* the value returned by invocation number i of a scripted operation
ValueOf(i) == [tag |-> "value", at |-> i]
MaxRetriesExceeded == [tag |-> "error", kind |-> "max_retries_exceeded", at |-> 0]
Nothing == [tag |-> "nothing"]

Scripts == [1..MaxAttempts -> Outcomes]
RetryCounts == (0 - 1)..MaxAttempts
InitialDelays == {1, DefaultInitialDelay}

(***************************************************************************)
(* A request slot.                                                         *)
(***************************************************************************)
Idle ==
    [kind |-> "none", pc |-> "idle",
     max_retries |-> 0, initial_delay |-> 0, script |-> <<>>,
     attempt |-> 0, invocations |-> 0, delay |-> 0, waits |-> 0,
     outcome |-> "none", result |-> Nothing,
     video_id |-> <<>>, timestamp |-> 0, outtmpl |-> <<>>, info |-> Nothing,
     video_ids |-> <<>>, items |-> <<>>,
     status |-> 0, body |-> Nothing]

(***************************************************************************)
(* retry_yt_dlp_operation                                                  *)
(***************************************************************************)
\* a slip: "2 * attempt" for "2 ** attempt"
BackoffDelay_Product(d0, attempt, u) == FloatRound(d0 * (2 * attempt) * Unit + u)

\* delay = initial_delay * (2 ** attempt) + random.uniform(0, 1)
BackoffDelay(d0, attempt, u) == FloatRound(d0 * Pow2(attempt) * Unit + u)

\* a slip: "attempt < max_retries"
NotLastAttempt_OffByOne(q) == q.attempt < q.max_retries

\* the guard "attempt < max_retries - 1" of both except clauses
NotLastAttempt(q) == q.attempt < q.max_retries - 1

\* a slip: the last attempt is not told apart
RetriesOn_Always(q, o) == IF IsDownloadError(o) THEN HasBotText(o) ELSE TRUE

\* whether the except clauses sleep and continue on a failure o
RetriesOn(q, o) ==
    IF IsDownloadError(o)
    THEN HasBotText(o) /\ NotLastAttempt(q)
    ELSE NotLastAttempt(q)

\* a slip: raise Exception("Max retries exceeded") in the except clause
Reraise_Generic(e) == MaxRetriesExceeded

\* the bare "raise" of both except clauses: the exception being handled
Reraise(e) == e

\* one pass of "for attempt in range(max_retries)": invoke the operation,
\* or fall out of the loop to the raise that follows it.  The locals e and
\* delay of the pass before are dead here and are cleared.
LoopIter(q, a) ==
    IF a < q.max_retries
    THEN [q EXCEPT !.attempt = a, !.pc = "running", !.outcome = "none",
                   !.delay = 0, !.invocations = q.invocations + 1]
    ELSE [q EXCEPT !.attempt = a, !.pc = "raised", !.outcome = "none",
                   !.delay = 0, !.result = MaxRetriesExceeded]

\* the wrapper after the awaited operation ended with outcome o
\* (val: what the operation returned, u: the jitter drawn)
AfterOperation(q, o, val, u) ==
    IF o = "ok"
    THEN [q EXCEPT !.outcome = o, !.pc = "returned", !.result = val]
    ELSE IF RetriesOn(q, o)
    THEN [q EXCEPT !.outcome = o, !.pc = "sleeping",
                   !.delay = BackoffDelay(q.initial_delay, q.attempt, u),
                   !.waits = q.waits + 1]
    ELSE [q EXCEPT !.outcome = o, !.pc = "raised",
                   !.result = Reraise(ErrorOf(o, q.invocations))]

\* random.uniform is called in the retrying branches alone
JitterDraws(q, o) == IF o # "ok" /\ RetriesOn(q, o) THEN Jitter ELSE {0}

\* a direct call retry_yt_dlp_operation(operation, N, d0) of a scripted
\* operation
CallRetry(r, N, d0, sc) ==
    /\ req[r].pc = "idle"
    /\ req' = [req EXCEPT ![r] =
                 LoopIter([Idle EXCEPT !.kind = "retry", !.max_retries = N,
                                       !.initial_delay = d0, !.script = sc], 0)]
    /\ UNCHANGED <<loop, now>>

\* the scripted operation ends; the wrapper returns, sleeps or raises
OperationEnds(r) ==
    /\ req[r].kind = "retry"
    /\ req[r].pc = "running"
    /\ \E u \in JitterDraws(req[r], req[r].script[req[r].invocations]) :
         req' = [req EXCEPT ![r] =
                   AfterOperation(req[r], req[r].script[req[r].invocations],
                                  ValueOf(req[r].invocations), u)]
    /\ UNCHANGED <<loop, now>>

(***************************************************************************)
(* Strings are sequences of characters; "downloads/" and "%(ext)s" are     *)
(* kept as one element each.                                               *)
(***************************************************************************)
Digit(d) == <<"0", "1", "2", "3", "4", "5", "6", "7", "8", "9">>[d + 1]
TwoDigits(n) == <<Digit((n \div 10) % 10), Digit(n % 10)>>
RECURSIVE Decimal(_)
Decimal(n) == IF n < 10 THEN <<Digit(n)>> ELSE Decimal(n \div 10) \o <<Digit(n % 10)>>

\* s[i..] starts with the string old
StartsWith(s, i, old) ==
    /\ i + Len(old) - 1 <= Len(s)
    /\ \A j \in 1..Len(old) : s[i + j - 1] = old[j]

\* str.replace(old, new): every occurrence, left to right
RECURSIVE ReplaceFrom(_, _, _, _)
ReplaceFrom(s, i, old, new) ==
    IF i > Len(s) THEN <<>>
    ELSE IF StartsWith(s, i, old)
    THEN new \o ReplaceFrom(s, i + Len(old), old, new)
    ELSE <<s[i]>> \o ReplaceFrom(s, i + 1, old, new)
Replace(s, old, new) == ReplaceFrom(s, 1, old, new)

(***************************************************************************)
(* The clock: datetime.now(), read in half seconds since the start of the  *)
(* modelled window, which lies within one minute of one day.               *)
(***************************************************************************)
SecondOf(t) == t \div 2

\* a slip: "%Y%m%d_%H%M", the seconds left out
Strftime_Minutes(t) == <<"D", "_", "h", "m">>

\* datetime.now().strftime("%Y%m%d_%H%M%S"): "D" is the date, "h" "m" the
\* hour and the minute of the window
Strftime(t) == <<"D", "_", "h", "m">> \o TwoDigits(SecondOf(t))

\* f"downloads/{video_id}_{timestamp}.%(ext)s"
OutTmpl(video_id, t) ==
    <<"downloads/">> \o video_id \o <<"_">> \o Strftime(t) \o <<".", "%(ext)s">>

\* ydl.prepare_filename(info): the template with the entry's extension
PrepareFilename(tmpl, ext) == Replace(tmpl, <<"%(ext)s">>, ext)

DotWebm == <<".", "w", "e", "b", "m">>
DotM4a == <<".", "m", "4", "a">>
DotMp3 == <<".", "m", "p", "3">>

\* prepare_filename(info).replace('.webm', '.mp3').replace('.m4a', '.mp3')
ActualFilename(tmpl, ext) ==
    Replace(Replace(PrepareFilename(tmpl, ext), DotWebm, DotMp3), DotM4a, DotMp3)

\* None, told apart from every number of seconds
NoneValue == 0 - 1

\* format_duration(seconds)
format_duration(seconds) ==
    IF seconds = NoneValue \/ seconds = 0 THEN <<"0", ":", "0", "0">>
    ELSE Decimal(seconds \div 60) \o <<":">> \o TwoDigits(seconds % 60)

(***************************************************************************)
(* download_audio                                                          *)
(***************************************************************************)
\* video ids, in the alphabet of the platform's ids
VideoIds == {<<"a">>, <<"a", "_", "D">>}
\* what the engine reports of a downloaded entry: its ext and duration
Infos == {[ext |-> <<"w", "e", "b", "m">>, duration |-> 65],
          [ext |-> <<"m", "4", "a">>, duration |-> NoneValue],
          [ext |-> <<"o", "p", "u", "s">>, duration |-> 0]}

\* the dict download_operation returns
DownloadResult(q, info) ==
    [tag |-> "value", status |-> "success",
     filename |-> ActualFilename(q.outtmpl, info.ext),
     duration |-> format_duration(info.duration)]

\* a slip: the failure answered with a 200 that carries the error
download_response_Swallow(q) ==
    IF q.pc = "returned" THEN [q EXCEPT !.status = 200, !.body = q.result]
    ELSE IF q.pc = "raised"
    THEN [q EXCEPT !.status = 200,
                   !.body = [detail |-> <<"Download failed: ", q.result>>]]
    ELSE q

\* the end of download_audio: the wrapper's value is the 200 response, and
\* "except Exception" turns what it raised into HTTPException(500)
download_response(q) ==
    IF q.pc = "returned" THEN [q EXCEPT !.status = 200, !.body = q.result]
    ELSE IF q.pc = "raised"
    THEN [q EXCEPT !.status = 500,
                   !.body = [detail |-> <<"Download failed: ", q.result>>]]
    ELSE q

\* POST /api/download/{video_id}: the handler runs up to the first await,
\* asyncio.to_thread(ydl.extract_info, ...), which leaves the loop free
download_audio(r, video_id) ==
    /\ req[r].pc = "idle"
    /\ loop = NoOne
    /\ req' = [req EXCEPT ![r] =
                 download_response(
                   LoopIter([Idle EXCEPT !.kind = "download",
                                         !.max_retries = DefaultMaxRetries,
                                         !.initial_delay = DefaultInitialDelay,
                                         !.video_id = video_id,
                                         !.timestamp = now,
                                         !.outtmpl = OutTmpl(video_id, now)], 0))]
    /\ UNCHANGED <<loop, now>>

\* ydl.extract_info returns the entry in its worker thread
ThreadReturns(r, info) ==
    /\ req[r].kind = "download"
    /\ req[r].pc = "running"
    /\ req' = [req EXCEPT ![r].pc = "ready", ![r].outcome = "ok",
                          ![r].info = info]
    /\ UNCHANGED <<loop, now>>

\* ydl.extract_info raises in its worker thread
ThreadRaises(r, f) ==
    /\ req[r].kind = "download"
    /\ req[r].pc = "running"
    /\ req' = [req EXCEPT ![r].pc = "ready", ![r].outcome = f,
                          ![r].info = Nothing]
    /\ UNCHANGED <<loop, now>>

\* the loop resumes download_operation: it returns its dict or the error
\* reaches the wrapper, and what the wrapper returns or raises ends the
\* handler
download_operation(r) ==
    /\ req[r].kind = "download"
    /\ req[r].pc = "ready"
    /\ loop = NoOne
    /\ \E u \in JitterDraws(req[r], req[r].outcome) :
         req' = [req EXCEPT ![r] =
                   download_response(
                     AfterOperation(req[r], req[r].outcome,
                                    IF req[r].outcome = "ok"
                                    THEN DownloadResult(req[r], req[r].info)
                                    ELSE Nothing, u))]
    /\ UNCHANGED <<loop, now>>

\* what the caller of the wrapper does with its return or raise
Respond(q) == IF q.kind = "download" THEN download_response(q) ELSE q

\* asyncio.sleep(delay) ends and "continue" starts the next pass
SleepEnds(r) ==
    /\ req[r].pc = "sleeping"
    /\ loop = NoOne
    /\ req' = [req EXCEPT ![r] = Respond(LoopIter(req[r], req[r].attempt + 1))]
    /\ UNCHANGED <<loop, now>>

(***************************************************************************)
(* health_check                                                            *)
(***************************************************************************)
health_check(r) ==
    /\ req[r].pc = "idle"
    /\ loop = NoOne
    /\ req' = [req EXCEPT ![r] =
                 [Idle EXCEPT !.kind = "health", !.pc = "done", !.status = 200,
                              !.body = [status |-> "healthy", timestamp |-> now]]]
    /\ UNCHANGED <<loop, now>>

Tick ==
    /\ now < MaxTick
    /\ now' = now + 1
    /\ UNCHANGED <<req, loop>>

(***************************************************************************)
(* search_videos                                                           *)
(***************************************************************************)
\* the keys of a videos().list() item the handler reads, in the order it
\* reads them; the first five are indexed, the last two read with .get
RequiredKeys == <<"duration", "publishedAt", "thumbnails", "title", "channelTitle">>
OptionalKeys == {"viewCount", "thumbnail_url"}
ItemKeys == {RequiredKeys[i] : i \in 1..Len(RequiredKeys)} \cup OptionalKeys

ItemIds == {"x", "y"}
\* an upstream item: its id and the keys it lacks (at most one)
Items == {[id |-> i, lacks |-> m] :
            i \in ItemIds, m \in {{}} \cup {{k} : k \in ItemKeys}}
WellFormed(item) == item.lacks = {}

SeqsUpTo(S, n) == UNION {[1..k -> S] : k \in 0..n}

UpstreamFailures == {"http_error", "exception"}

\* the string found under key k of item it
Field(it, k) == <<k, "of", it.id>>
\* int(item['statistics'].get('viewCount', 0))
ViewCount(it) == IF "viewCount" \in it.lacks THEN 0 ELSE 7

\* a slip: every key read with a default
VideoInfo_Defaulted(it) ==
    [tag |-> "value", id |-> it.id,
     title |-> IF "title" \in it.lacks THEN <<"No title">> ELSE Field(it, "title"),
     channel |-> IF "channelTitle" \in it.lacks THEN <<"Unknown channel">>
                 ELSE Field(it, "channelTitle"),
     view_count |-> ViewCount(it),
     thumbnail |-> IF "thumbnail_url" \in it.lacks THEN <<>>
                   ELSE Field(it, "thumbnail_url")]

\* one pass of "for item in videos_response['items']": the VideoInfo, or the
\* KeyError of the first indexed key the item lacks
VideoInfo(it) ==
    IF \E i \in 1..Len(RequiredKeys) : RequiredKeys[i] \in it.lacks
    THEN [tag |-> "error", kind |-> "KeyError",
          key |-> RequiredKeys[CHOOSE i \in 1..Len(RequiredKeys) :
                                 RequiredKeys[i] \in it.lacks]]
    ELSE [tag |-> "value", id |-> it.id,
          title |-> Field(it, "title"),
          channel |-> Field(it, "channelTitle"),
          view_count |-> ViewCount(it),
          thumbnail |-> IF "thumbnail_url" \in it.lacks THEN <<>>
                        ELSE Field(it, "thumbnail_url")]

\* a slip: results.insert(0, ...) for results.append(...)
Results_Prepend(items) == [i \in 1..Len(items) |-> VideoInfo(items[Len(items) + 1 - i])]

\* the list the loop appends to
Results(items) == [i \in 1..Len(items) |-> VideoInfo(items[i])]

\* the handler once videos().list().execute() has returned its items
search_response(q, items) ==
    LET res == Results(items) IN
    IF \E i \in 1..Len(res) : res[i].tag = "error"
    THEN [q EXCEPT !.pc = "done", !.items = items, !.outcome = "ok",
                   !.status = 500,
                   !.body = [detail |-> <<"Search failed: ",
                               res[CHOOSE i \in 1..Len(res) :
                                     /\ res[i].tag = "error"
                                     /\ \A j \in 1..(i - 1) : res[j].tag = "value"]>>]]
    ELSE [q EXCEPT !.pc = "done", !.items = items, !.outcome = "ok",
                   !.status = 200, !.body = [results |-> res]]

\* a variant the code does not have: the failed call made again, after a
\* wait, as retry_yt_dlp_operation would
upstream_failed_Retried(q, f) ==
    IF q.invocations < DefaultMaxRetries
    THEN [q EXCEPT !.outcome = f, !.invocations = q.invocations + 1,
                   !.delay = DefaultInitialDelay * Unit, !.waits = q.waits + 1]
    ELSE [q EXCEPT !.pc = "done", !.outcome = f, !.status = 500,
                   !.body = [detail |-> <<"Search failed: ", f>>]]

\* "except HttpError" and "except Exception" around the two upstream calls
upstream_failed(q, f) ==
    [q EXCEPT !.pc = "done", !.outcome = f, !.status = 500,
              !.body = [detail |-> <<IF f = "http_error" THEN "YouTube API error: "
                                     ELSE "Search failed: ", f>>]]

\* POST /api/search: the handler starts and calls
\* youtube.search().list(...).execute() on the loop's own thread
search_videos(r) ==
    /\ req[r].pc = "idle"
    /\ loop = NoOne
    /\ req' = [req EXCEPT ![r] =
                 [Idle EXCEPT !.kind = "search", !.pc = "searching",
                              !.invocations = 1]]
    /\ loop' = r
    /\ UNCHANGED now

\* search().list().execute() returns the ids; the handler goes on to call
\* youtube.videos().list(...).execute(), again on the loop's thread
SearchReturns(r, ids) ==
    /\ req[r].kind = "search"
    /\ req[r].pc = "searching"
    /\ req' = [req EXCEPT ![r].pc = "detailing", ![r].video_ids = ids,
                          ![r].outcome = "ok",
                          ![r].invocations = req[r].invocations + 1]
    /\ UNCHANGED <<loop, now>>

\* videos().list().execute() returns the items; the handler builds the
\* results and ends
DetailReturns(r, items) ==
    /\ req[r].kind = "search"
    /\ req[r].pc = "detailing"
    /\ req' = [req EXCEPT ![r] = search_response(req[r], items)]
    /\ loop' = NoOne
    /\ UNCHANGED now

\* either execute() raises
UpstreamFails(r, f) ==
    /\ req[r].kind = "search"
    /\ req[r].pc \in {"searching", "detailing"}
    /\ req' = [req EXCEPT ![r] = upstream_failed(req[r], f)]
    /\ loop' = IF req'[r].pc = "done" THEN NoOne ELSE loop
    /\ UNCHANGED now

(***************************************************************************)
(* Specifications                                                          *)
(***************************************************************************)
Init ==
    /\ req = [r \in Reqs |-> Idle]
    /\ loop = NoOne
    /\ now = 0

\* the upstream replies of the server specification
ServerIdReplies == {<<"x">>}
ServerItemReplies == {<<[id |-> "x", lacks |-> {}]>>,
                      <<[id |-> "x", lacks |-> {"title"}]>>}

Next ==
    \/ Tick
    \/ \E r \in Reqs :
         \/ \E v \in VideoIds : download_audio(r, v)
         \/ \E info \in Infos : ThreadReturns(r, info)
         \/ \E f \in Failures : ThreadRaises(r, f)
         \/ download_operation(r)
         \/ SleepEnds(r)
         \/ health_check(r)
         \/ search_videos(r)
         \/ \E ids \in ServerIdReplies : SearchReturns(r, ids)
         \/ \E items \in ServerItemReplies : DetailReturns(r, items)
         \/ \E f \in UpstreamFailures : UpstreamFails(r, f)

Spec == Init /\ [][Next]_vars

NextSearch ==
    \/ search_videos(1)
    \/ \E ids \in SeqsUpTo(ItemIds, MaxItems) : SearchReturns(1, ids)
    \/ \E items \in SeqsUpTo(Items, MaxItems) : DetailReturns(1, items)
    \/ \E f \in UpstreamFailures : UpstreamFails(1, f)

SpecSearch == Init /\ [][NextSearch]_vars

NextRetry ==
    \/ \E N \in RetryCounts, d0 \in InitialDelays, sc \in Scripts :
         CallRetry(1, N, d0, sc)
    \/ OperationEnds(1)
    \/ SleepEnds(1)

SpecRetry == Init /\ [][NextRetry]_vars

FairSpecRetry ==
    /\ SpecRetry
    /\ WF_vars(OperationEnds(1))
    /\ WF_vars(SleepEnds(1))

(***************************************************************************)
(* Claims about the retry wrapper (checked under SpecRetry).               *)
(***************************************************************************)
RetryCalls == {r \in Reqs : req[r].kind = "retry"}
Finished(q) == q.pc \in {"returned", "raised"}
\* the operation fails on its first k invocations and succeeds on the next
FailsThenSucceeds(q, k) ==
    /\ k < q.max_retries
    /\ \A i \in 1..k : q.script[i] \in Failures
    /\ q.script[k + 1] = "ok"
\* the failures the except clauses answer with a wait and another attempt
Retryable(o) == o \in Failures /\ (IsDownloadError(o) => HasBotText(o))
FailsEveryTime(q) == \A i \in 1..q.max_retries : q.script[i] \in Failures
\* the invocation whose failure the wrapper raises when every one fails
LastInvocation(q) ==
    IF \E j \in 1..q.max_retries : ~Retryable(q.script[j])
    THEN CHOOSE j \in 1..q.max_retries :
           /\ ~Retryable(q.script[j])
           /\ \A i \in 1..(j - 1) : Retryable(q.script[i])
    ELSE q.max_retries
\* the lower end d0 * 2^i of the wait after failed attempt i, in units
DelayFloor(q, i) == q.initial_delay * Pow2(i) * Unit

\* C1 as stated: whatever the kind of the k failures, the call returns the
\* value of invocation k+1 after exactly k+1 invocations and k waits, and the
\* wait after failed attempt i is >= d0*2^i and < d0*2^i + 1.
C1_AsStated ==
    \A r \in RetryCalls :
      LET q == req[r] IN
      /\ \A k \in 0..MaxAttempts :
           (q.max_retries >= 1 /\ Finished(q) /\ FailsThenSucceeds(q, k)) =>
             /\ q.pc = "returned"
             /\ q.result = ValueOf(k + 1)
             /\ q.invocations = k + 1
             /\ q.waits = k
      /\ q.pc = "sleeping" =>
           /\ q.waits = q.attempt + 1
           /\ q.delay >= DelayFloor(q, q.attempt)
           /\ q.delay < DelayFloor(q, q.attempt) + Unit

\* C1 amended: when each of the k failures is a DownloadError carrying the
\* bot-detection text or an error that is not a DownloadError, the call
\* returns the value of invocation k+1 after exactly k+1 invocations and k
\* waits, and the wait after failed attempt i is >= d0*2^i and <= d0*2^i + 1
\* (the floating-point sum of d0*2^i and a jitter below 1 can round up to
\* d0*2^i + 1).
C1_RetryThenSuccess ==
    \A r \in RetryCalls :
      LET q == req[r] IN
      /\ \A k \in 0..MaxAttempts :
           (/\ q.max_retries >= 1
            /\ Finished(q)
            /\ FailsThenSucceeds(q, k)
            /\ \A i \in 1..k : Retryable(q.script[i])) =>
             /\ q.pc = "returned"
             /\ q.result = ValueOf(k + 1)
             /\ q.invocations = k + 1
             /\ q.waits = k
      /\ q.pc = "sleeping" =>
           /\ q.waits = q.attempt + 1
           /\ q.delay >= DelayFloor(q, q.attempt)
           /\ q.delay <= DelayFloor(q, q.attempt) + Unit

\* two retryable failures, then success on the third of three attempts
C1_Witness ==
    \E r \in RetryCalls :
      /\ req[r].max_retries = DefaultMaxRetries
      /\ FailsThenSucceeds(req[r], 2)
      /\ req[r].pc = "returned"
      /\ req[r].invocations = 3
      /\ req[r].waits = 2

\* C2 as stated: when every invocation fails, whatever the kinds, the
\* operation is invoked exactly N times and the N-th error is raised.
C2_AsStated ==
    \A r \in RetryCalls :
      LET q == req[r] IN
      (q.max_retries >= 1 /\ Finished(q) /\ FailsEveryTime(q)) =>
        /\ q.pc = "raised"
        /\ q.invocations = q.max_retries
        /\ q.result = ErrorOf(q.script[q.max_retries], q.max_retries)

\* C2 amended: when every invocation fails, the wrapper raises the error of
\* the last invocation it made, itself; that is invocation N when each of
\* the first N-1 failures is retryable, and otherwise the first invocation
\* that fails with a DownloadError lacking the bot-detection text.
C2_RaisesLastError ==
    \A r \in RetryCalls :
      LET q == req[r] IN
      (q.max_retries >= 1 /\ Finished(q) /\ FailsEveryTime(q)) =>
        /\ q.pc = "raised"
        /\ q.invocations = LastInvocation(q)
        /\ q.result = ErrorOf(q.script[q.invocations], q.invocations)

\* three failures of three attempts, the third one's error raised
C2_Witness ==
    \E r \in RetryCalls :
      /\ req[r].max_retries = DefaultMaxRetries
      /\ FailsEveryTime(req[r])
      /\ req[r].pc = "raised"
      /\ req[r].invocations = 3
      /\ req[r].result.at = 3

\* C9: with max_retries >= 1 every error the wrapper raises is an error the
\* operation raised, never "Max retries exceeded"; that one is raised only
\* with max_retries <= 0, the operation not having been invoked.
C9_GenericFailureUnreachable ==
    \A r \in RetryCalls :
      LET q == req[r] IN
      /\ (q.pc = "raised" /\ q.max_retries >= 1) =>
           /\ q.result # MaxRetriesExceeded
           /\ q.result.at \in 1..q.invocations
           /\ q.result = ErrorOf(q.script[q.result.at], q.result.at)
           /\ q.result.kind \in Failures
      /\ q.result = MaxRetriesExceeded =>
           (q.max_retries <= 0 /\ q.invocations = 0)

\* every allowed attempt failed and the call raised
C9_Witness ==
    \E r \in RetryCalls :
      /\ req[r].max_retries >= 2
      /\ req[r].pc = "raised"
      /\ req[r].invocations = req[r].max_retries

\* C10 as stated (its bound): at most max_retries invocations and at most
\* max_retries - 1 waits in every reachable state.
C10_AsStated ==
    \A r \in RetryCalls :
      /\ req[r].invocations <= req[r].max_retries
      /\ req[r].waits <= req[r].max_retries - 1

Max0(n) == IF n < 0 THEN 0 ELSE n
AttemptBound ==
    \A r \in RetryCalls :
      /\ req[r].invocations <= Max0(req[r].max_retries)
      /\ req[r].waits <= Max0(req[r].max_retries - 1)
      /\ Finished(req[r]) => req[r].waits = Max0(req[r].invocations - 1)

\* C10 amended: a call whose operation invocations and waits each finish
\* eventually returns or raises, and in every reachable state it has made
\* at most max(max_retries, 0) invocations and max(max_retries - 1, 0) waits,
\* none after the attempt whose result it returns or raises.
C10_TerminatesWithinBound ==
    /\ []AttemptBound
    /\ \A r \in Reqs :
         (req[r].kind = "retry") ~> (req[r].kind = "retry" /\ Finished(req[r]))

\* a finished call that used every attempt and every wait it is allowed
C10_Witness ==
    \E r \in RetryCalls :
      /\ Finished(req[r])
      /\ req[r].max_retries >= 2
      /\ req[r].invocations = req[r].max_retries
      /\ req[r].waits = req[r].max_retries - 1

(***************************************************************************)
(* Claims about POST /api/download (checked under Spec).                   *)
(***************************************************************************)
Downloads == {r \in Reqs : req[r].kind = "download"}
DownloadFailed(e) == [detail |-> <<"Download failed: ", e>>]

\* C3 as stated: every engine failure ends in a 500 that carries the error's
\* message and comes only after the engine was invoked 3 times; none ends
\* in a 200.
C3_AsStated ==
    \A r \in Downloads :
      LET q == req[r] IN
      /\ q.pc = "raised" => q.status = 500
      /\ q.status = 200 => q.outcome = "ok"
      /\ q.status = 500 =>
           /\ q.body = DownloadFailed(ErrorOf(q.outcome, q.invocations))
           /\ q.invocations = DefaultMaxRetries

\* C3 amended: every error the download operation ends with is answered with
\* a 500 whose detail carries that error's message; a DownloadError without
\* the bot-detection text is answered at once, after the invocation that
\* raised it, any other error only after the engine was invoked 3 times; no
\* failure ends in a 200.
C3_FailureIs500 ==
    \A r \in Downloads :
      LET q == req[r] IN
      /\ q.pc = "raised" <=> q.status = 500
      /\ q.pc = "returned" <=> q.status = 200
      /\ q.status = 200 => q.outcome = "ok"
      /\ q.status = 500 =>
           /\ q.outcome \in Failures
           /\ q.body = DownloadFailed(ErrorOf(q.outcome, q.invocations))
           /\ Retryable(q.outcome) => q.invocations = DefaultMaxRetries
      /\ (q.outcome = "other_dl" /\ q.pc # "ready") => q.status = 500

\* a 500 after the third failed invocation
C3_Witness ==
    \E r \in Downloads :
      /\ req[r].status = 500
      /\ req[r].invocations = DefaultMaxRetries
      /\ req[r].waits = 2

(***************************************************************************)
(* Claims about the event loop (checked under Spec).                       *)
(***************************************************************************)
\* the upstream call of request r is in progress
UpstreamInProgress(r) ==
    \/ req[r].kind = "download" /\ req[r].pc = "running"
    \/ req[r].kind = "search" /\ req[r].pc \in {"searching", "detailing"}

\* C6: while the upstream call of a request is in progress the loop is free
\* to start and complete the handler of another request.
C6_LoopFreeDuringUpstream ==
    \A r \in Reqs : UpstreamInProgress(r) => loop = NoOne

Searches == {r \in Reqs : req[r].kind = "search"}
\* the handler got the items of the detail lookup
Replied(q) == q.pc = "done" /\ q.outcome = "ok"

\* C4 as stated: a 500 for a failed upstream call comes only after the
\* maximum number of attempts, with a backoff wait between them.
C4_AsStated ==
    \A r \in Searches :
      LET q == req[r] IN
      (q.status = 500 /\ q.outcome \in UpstreamFailures) =>
        /\ q.invocations >= DefaultMaxRetries
        /\ q.waits = DefaultMaxRetries - 1

\* C4 amended: the upstream calls of POST /api/search are not wrapped by the
\* retry wrapper: each is made once, and the first failure of either is
\* answered with a 500 at once, with no wait and no other attempt.
C4_SearchIsNotRetried ==
    \A r \in Searches :
      LET q == req[r] IN
      /\ q.waits = 0
      /\ q.invocations \in {1, 2}
      /\ q.outcome \in UpstreamFailures =>
           /\ q.pc = "done"
           /\ q.status = 500
           /\ q.body.detail[2] = q.outcome

\* the search call failed on its only attempt
C4_Witness ==
    \E r \in Searches :
      /\ req[r].outcome = "http_error"
      /\ req[r].status = 500
      /\ req[r].invocations = 1

LacksIndexedKey(it) == \E i \in 1..Len(RequiredKeys) : RequiredKeys[i] \in it.lacks

\* C5 as stated: an entry lacking title or channelTitle is defaulted: the
\* response is 200 with a record for it, titled "No title" or of channel
\* "Unknown channel".
C5_AsStated ==
    \A r \in Searches :
      LET q == req[r] IN
      Replied(q) =>
        \A i \in 1..Len(q.items) :
          (q.items[i].lacks \cap {"title", "channelTitle"} # {}) =>
            /\ q.status = 200
            /\ Len(q.body.results) = Len(q.items)
            /\ "title" \in q.items[i].lacks =>
                 q.body.results[i].title = <<"No title">>
            /\ "channelTitle" \in q.items[i].lacks =>
                 q.body.results[i].channel = <<"Unknown channel">>

\* C5 amended: an entry lacking title or channelTitle (or another key the
\* handler indexes) fails the request with 500 "Search failed: " and the
\* KeyError of the first such key, and no record is returned; only a missing
\* viewCount (0) and a missing thumbnail url (empty) are defaulted, and then
\* the response is 200 with a record for each entry.
C5_MissingKeyFailsRequest ==
    \A r \in Searches :
      LET q == req[r] IN
      Replied(q) =>
        /\ (\E i \in 1..Len(q.items) : LacksIndexedKey(q.items[i])) =>
             /\ q.status = 500
             /\ q.body.detail[1] = "Search failed: "
             /\ q.body.detail[2].kind = "KeyError"
             /\ \E i \in 1..Len(q.items) :
                  /\ q.body.detail[2].key \in q.items[i].lacks
                  /\ \A j \in 1..(i - 1) : ~LacksIndexedKey(q.items[j])
        /\ (\A i \in 1..Len(q.items) : ~LacksIndexedKey(q.items[i])) =>
             /\ q.status = 200
             /\ Len(q.body.results) = Len(q.items)
             /\ \A i \in 1..Len(q.items) :
                  /\ "viewCount" \in q.items[i].lacks =>
                       q.body.results[i].view_count = 0
                  /\ "thumbnail_url" \in q.items[i].lacks =>
                       q.body.results[i].thumbnail = <<>>

\* a reply whose second entry lacks its title, answered with 500
C5_Witness ==
    \E r \in Searches :
      /\ Replied(req[r])
      /\ Len(req[r].items) = 2
      /\ req[r].items[1].lacks = {"viewCount"}
      /\ req[r].items[2].lacks = {"title"}
      /\ req[r].status = 500

\* C8: when both upstream calls succeed and the detail lookup returns n
\* well-formed entries with the ids of the search step in the same order,
\* the response is 200 with exactly n records, the i-th with the i-th id.
C8_RecordsFollowUpstreamOrder ==
    \A r \in Searches :
      LET q == req[r] IN
      (/\ Replied(q)
       /\ Len(q.items) = Len(q.video_ids)
       /\ \A i \in 1..Len(q.items) :
            WellFormed(q.items[i]) /\ q.items[i].id = q.video_ids[i]) =>
        /\ q.status = 200
        /\ Len(q.body.results) = Len(q.video_ids)
        /\ \A i \in 1..Len(q.video_ids) :
             q.body.results[i].id = q.video_ids[i]

\* two well-formed entries with different ids, answered in their order
C8_Witness ==
    \E r \in Searches :
      /\ Replied(req[r])
      /\ req[r].video_ids = <<"x", "y">>
      /\ Len(req[r].items) = 2
      /\ \A i \in 1..2 :
           WellFormed(req[r].items[i]) /\ req[r].items[i].id = req[r].video_ids[i]
      /\ req[r].status = 200

=============================================================================
